---- MODULE Spec2Model ----
(***************************************************************************)
(* State-machine model of the vision-system ingestion pipeline             *)
(* ("moment of truth.py", src/code.py lines 308-609): an intake watcher    *)
(* (ImageRenameHandler) that renames, copies and converts new files, and a *)
(* staging watcher (ImageHandler + process_image) that extracts rectangle  *)
(* centers from the staged grayscale copies.                               *)
(*                                                                         *)
(* File names are sequences of tokens: one token per character, except     *)
(* that a lower-case word ("png", "grayscale", "coords", "txt") is one     *)
(* token.  The folders are the names they hold.                            *)
(***************************************************************************)
EXTENDS Integers, Sequences, FiniteSets, TLC

VARIABLES
    platform,       \* "windows" | "posix": the OS the program runs on
    faulty,         \* the folders can fail: os.listdir and os.makedirs may raise
    running,        \* the intake watcher processes that were started
    intake,         \* test_images: the set of file names present
    stagedNames,    \* the names in intake produced by a rename of a stager
    locked,         \* names in intake held open by another process (windows)
    copied,         \* copied_images: name -> state of the file's content
    queue,          \* per intake watcher: the creation events not yet handled
    pc,             \* per intake watcher: position in on_created/rename_new_image
    cur,            \* per intake watcher: the event being handled
    elapsed,        \* wait_for_file: half-seconds since start_time
    next_number,    \* rename_new_image: next_number
    new_filename,   \* rename_new_image: new_filename
    attempt,        \* rename_new_image: attempt
    nInUse,         \* history: 'file in use' failures of the current staging
    nMissing,       \* history: 'source not found' observations of the current staging
    calls,          \* history: os.rename calls of the current staging
    lastError,      \* history: outcome of the latest os.rename of the current staging
    did,            \* history: operations performed by the current staging
    err,            \* the error messages printed by the current staging
    assigned,       \* history: the successful renames, in order
    nArrived,       \* history: number of files and directories created so far
    digitArrived,   \* history: some created file had an all-digit stem
    oneAtATime,     \* history: no file was created while a staging was pending
    xq,             \* staging watcher: the creation events not yet handled
    xpc,            \* staging watcher: position in on_created/process_image
    xcur,           \* staging watcher: event.src_path being handled
    xread,          \* history: the content state the latest cv2.imread was given
    xcenters,       \* process_image: rectangle_centers
    xresult,        \* history: how the latest process_image ended
    xrouted,        \* history: the paths handed to process_image, in order
    artifacts,      \* copied_images: coordinate file name -> its text
    lastCenters,    \* history: coordinate file name -> the centers of the latest
                    \* extraction that wrote it completely, and the number of
                    \* complete writes
    wfolder,        \* stand-alone processor: the names in its watched folder
    wq,             \* stand-alone processor: the creation events not yet handled
    wpc,            \* stand-alone processor: position in on_created/process_image
    wcur,           \* stand-alone processor: event.src_path being handled
    wnew,           \* stand-alone processor: new_filepath
    wfound,         \* stand-alone processor: rectangle_centers is not empty
    image_counter,  \* stand-alone processor: the global image_counter
    wnamed,         \* history: the successful renames of the stand-alone processor
    scene,          \* the picture a test image was drawn from
    image,          \* process_image: the decoded grayscale image, pixel -> gray value
    thresh,         \* process_image: the binary mask, pixel -> 0 or 255
    contours,       \* process_image: the contours cv2.findContours returned
    rectangle_centers,  \* process_image: the list of centers
    vpc,            \* process_image: the statement it is at
    vtext,          \* the text of the coordinate file of the image
    vruns           \* history: how each finished run of process_image ended

vars == <<platform, faulty, running, intake, stagedNames, locked, copied, queue, pc, cur,
          elapsed, next_number, new_filename, attempt, nInUse, nMissing, calls,
          lastError, did, err, assigned, nArrived, digitArrived, oneAtATime,
          xq, xpc, xcur, xread, xcenters, xresult, xrouted, artifacts, lastCenters,
          wfolder, wq, wpc, wcur, wnew, wfound, image_counter, wnamed,
          scene, image, thresh, contours, rectangle_centers, vpc, vtext, vruns>>

envVars == <<platform, faulty, running>>
stagerLocals == <<elapsed, next_number, new_filename, attempt, nInUse, nMissing, calls,
                  lastError>>
extractorVars == <<xpc, xcur, xread, xcenters, xresult, xrouted>>
artifactVars == <<artifacts, lastCenters>>
standaloneVars == <<wfolder, wq, wpc, wcur, wnew, wfound, image_counter, wnamed>>
visionVars == <<scene, image, thresh, contours, rectangle_centers, vpc, vtext, vruns>>
pipelineVars == <<platform, faulty, running, intake, stagedNames, locked, copied, queue,
                  pc, cur, elapsed, next_number, new_filename, attempt, nInUse, nMissing,
                  calls, lastError, did, err, assigned, digitArrived, oneAtATime,
                  xq, xpc, xcur, xread, xcenters, xresult, xrouted, artifacts, lastCenters>>

----------------------------------------------------------------------------
(* Bounds of the model *)

\* a producer creates a file only while fewer than MaxEvents creation events
\* have been delivered to the watchers of the intake folder
MaxEvents == 2

\* the stand-alone processor renames a file only while image_counter is
\* below MaxImages
MaxImages == 3

\* the canvas of a test picture is Width pixels wide and Height pixels high
Width == 8
Height == 5

\* process_image is run at most MaxRuns times on one image
MaxRuns == 2

\* the loop of process_image is given at most MaxContours contours
MaxContours == 3

(* Program constants *)

\* cv2.threshold(image, 50, 255, cv2.THRESH_BINARY_INV)
THRESH == 50
MAXVAL == 255

\* epsilon = 0.02 * cv2.arcLength(cnt, True), in thousandths
EpsilonPerMille == 20

\* rename_new_image: max_attempts = 10
max_attempts == 10

\* wait_for_file(timeout=10) polled with time.sleep(0.5): 20 half-seconds
TimeoutTicks == 20

Stagers == {1, 2}

Digits == <<"0", "1", "2", "3", "4", "5", "6", "7", "8", "9">>
DigitSet == {Digits[i] : i \in 1..10}

\* The names the producers give their files: the webcam's
\* capture_<timestamp>.png, and two names whose stem is all digits
NameCapture == <<"capture", "_", "t", ".", "png">>
Name1 == <<"1", ".", "png">>
Name9 == <<"9", ".", "png">>
IncomingNames == {NameCapture, Name1, Name9}

NoName == <<>>
NoEvent == [src_path |-> NoName, arr |-> 0, is_directory |-> FALSE]

\* A directory made in test_images, and one made in copied_images whose
\* name holds the grayscale marker
NameDir == <<"frames">>
NameGrayDir == <<"grayscale", "_", "out">>

\* A file whose stem is the superscript two (U+00B2): str.isdigit() is true
\* of it and int() rejects it
NameSuper2 == <<"sup2", ".", "png">>
SuperscriptDigits == {"sup2"}

----------------------------------------------------------------------------
(* Pure helpers: os.path.splitext, str.isdigit, int(), f"{n}", str.split *)

SetMax(S) == CHOOSE m \in S : \A x \in S : x <= m

\* os.path.splitext(f): the extension starts at the last dot that is not
\* part of the leading dots of the name
SplitExt(f) ==
    LET dots == {i \in 1..Len(f) : f[i] = "." /\ \E j \in 1..(i-1) : f[j] # "."}
    IN  IF dots = {} THEN <<f, <<>>>>
        ELSE <<SubSeq(f, 1, SetMax(dots) - 1), SubSeq(f, SetMax(dots), Len(f))>>

Stem(f) == SplitExt(f)[1]
Ext(f) == SplitExt(f)[2]

\* name.isdigit(): true of the decimal digits and of other Unicode digits
IsDigit(name) ==
    Len(name) > 0 /\ \A i \in 1..Len(name) : name[i] \in DigitSet \cup SuperscriptDigits

\* int(name) returns: the name is made of decimal digits
IsDecimal(name) == Len(name) > 0 /\ \A i \in 1..Len(name) : name[i] \in DigitSet

DigitValue(c) == (CHOOSE i \in 1..10 : Digits[i] = c) - 1

\* int(name) for an all-digit name
RECURSIVE ParseInt(_)
ParseInt(name) ==
    IF name = <<>> THEN 0
    ELSE 10 * ParseInt(SubSeq(name, 1, Len(name) - 1)) + DigitValue(name[Len(name)])

\* f"{n}" for n >= 0
RECURSIVE FormatInt(_)
FormatInt(n) ==
    IF n < 10 THEN <<Digits[n + 1]>>
    ELSE FormatInt(n \div 10) \o <<Digits[(n % 10) + 1]>>

\* current_numbers of rename_new_image, as the set of its values
CurrentNumbers(listing) == {ParseInt(Stem(f)) : f \in {g \in listing : IsDigit(Stem(g))}}

\* NextNumber that ignores the listing
NextNumberIgnoresListing(listing) == 1

\* NextNumber taking the count of the numbered files for their maximum
NextNumberByCount(listing) == Cardinality(CurrentNumbers(listing)) + 1

\* NextNumber with the increment forgotten
NextNumberNoIncrement(listing) ==
    IF CurrentNumbers(listing) # {} THEN SetMax(CurrentNumbers(listing)) ELSE 1

\* next_number = max(current_numbers) + 1 if current_numbers else 1
NextNumber(listing) ==
    IF CurrentNumbers(listing) # {} THEN SetMax(CurrentNumbers(listing)) + 1 ELSE 1

\* new_filename = f"{next_number}{ext}"
NewFilename(n, file_path) == FormatInt(n) \o Ext(file_path)

\* copy_filename = f"{name_only}_grayscale{ext}"
CopyFilename(newname) == Stem(newname) \o <<"_", "grayscale">> \o Ext(newname)

\* base_name.split('_')[0]
SplitUnderscoreFirst(base) ==
    LET us == {i \in 1..Len(base) : base[i] = "_"}
    IN  IF us = {} THEN base ELSE SubSeq(base, 1, (CHOOSE i \in us : \A j \in us : i <= j) - 1)

\* CoordsFilename built from the whole stem, as the stand-alone processor does
CoordsFilenameFullStem(base) == Stem(base) \o <<"_", "coords", ".", "txt">>

\* txt_filename = f"{number}_coords.txt"
CoordsFilename(base) == SplitUnderscoreFirst(base) \o <<"_", "coords", ".", "txt">>

\* "grayscale" in os.path.basename(event.src_path)
HasGrayscaleMarker(base) == \E i \in 1..Len(base) : base[i] = "grayscale"

----------------------------------------------------------------------------
(* os.rename and the classification of its failures *)

\* The outcome of os.rename(src, dst) in the current state of the folder
OsRename(src, dst) ==
    IF src \notin intake THEN
        IF platform = "windows" THEN "ERROR_FILE_NOT_FOUND" ELSE "ENOENT"
    ELSE IF src \in locked THEN "ERROR_SHARING_VIOLATION"
    ELSE IF dst \in intake /\ dst # src /\ platform = "windows" THEN "ERROR_ALREADY_EXISTS"
    ELSE "ok"

\* getattr(e, 'winerror', None), as a set: empty when the attribute is absent
Winerror(e) ==
    CASE e = "ERROR_SHARING_VIOLATION" -> {32}
      [] e = "ERROR_FILE_NOT_FOUND" -> {2}
      [] e = "ERROR_ALREADY_EXISTS" -> {183}
      [] OTHER -> {}

\* IsFileInUse with every OSError taken for a retryable one
IsAnyOSError(e) == e # "ok"

\* getattr(e, 'winerror', None) == 32
IsFileInUse(e) == Winerror(e) = {32}

\* LoopContinues with the budget test off by one
LoopContinuesOneMore(a) == a <= max_attempts

\* LoopContinues giving up after the third failure
LoopContinuesThree(a) == a < 3

\* while attempt < max_attempts
LoopContinues(a) == a < max_attempts

\* time.time() - start_time > timeout
TimedOut(t) == t > TimeoutTicks

----------------------------------------------------------------------------
\* No picture
NoScene ==
    [kind |-> "none", gray |-> [rect |-> 0, ground |-> 0], xs |-> <<0, 0>>, ys |-> <<0, 0>>]

\* No image is being processed pixel by pixel
NoImage ==
    /\ scene = NoScene
    /\ image = <<>>
    /\ thresh = <<>>
    /\ contours = <<>>
    /\ rectangle_centers = <<>>
    /\ vpc = "off"
    /\ vtext = <<>>
    /\ vruns = <<>>

\* The folders are empty, the watchers wait for events, nothing has happened
FreshWatchers ==
    /\ intake = {}
    /\ stagedNames = {}
    /\ locked = {}
    /\ copied = <<>>
    /\ queue = [s \in Stagers |-> <<>>]
    /\ pc = [s \in Stagers |-> "idle"]
    /\ cur = [s \in Stagers |-> NoEvent]
    /\ elapsed = [s \in Stagers |-> 0]
    /\ next_number = [s \in Stagers |-> 0]
    /\ new_filename = [s \in Stagers |-> NoName]
    /\ attempt = [s \in Stagers |-> 0]
    /\ nInUse = [s \in Stagers |-> 0]
    /\ nMissing = [s \in Stagers |-> 0]
    /\ calls = [s \in Stagers |-> 0]
    /\ lastError = [s \in Stagers |-> "none"]
    /\ did = [s \in Stagers |-> {}]
    /\ err = [s \in Stagers |-> {}]
    /\ assigned = <<>>
    /\ nArrived = 0
    /\ digitArrived = FALSE
    /\ oneAtATime = TRUE
    /\ xq = <<>>
    /\ xpc = "idle"
    /\ xcur = NoName
    /\ xread = "none"
    /\ xcenters = <<>>
    /\ xresult = "none"
    /\ xrouted = <<>>
    /\ artifacts = <<>>
    /\ lastCenters = <<>>
    /\ wfolder = {}
    /\ wq = <<>>
    /\ wpc = "idle"
    /\ wcur = NoName
    /\ wnew = NoName
    /\ wfound = FALSE
    /\ image_counter = 0
    /\ wnamed = <<>>

Fresh == FreshWatchers /\ NoImage

Init ==
    /\ platform \in {"windows", "posix"}
    /\ faulty = FALSE
    /\ running = {1}
    /\ Fresh

\* The program started where the folders can fail
InitFaults ==
    /\ platform \in {"windows", "posix"}
    /\ faulty = TRUE
    /\ running = {1}
    /\ Fresh
----------------------------------------------------------------------------
(* The environment: producers writing into the intake folder, and other    *)
(* processes holding or withdrawing files that have not been staged yet    *)

\* A producer creates a file; every running watcher of the folder gets the
\* creation event
Create(name) ==
    /\ nArrived * Cardinality(running) < MaxEvents
    /\ name \notin intake
    /\ intake' = intake \cup {name}
    /\ queue' = [s \in Stagers |->
                   IF s \in running
                   THEN Append(queue[s], [src_path |-> name, arr |-> nArrived + 1,
                                         is_directory |-> FALSE])
                   ELSE queue[s]]
    /\ nArrived' = nArrived + 1
    /\ digitArrived' = (digitArrived \/ IsDigit(Stem(name)))
    /\ oneAtATime' = (oneAtATime /\ \A s \in running : pc[s] = "idle" /\ queue[s] = <<>>)
    /\ UNCHANGED <<envVars, visionVars, artifactVars, standaloneVars, stagedNames, locked, copied, pc, cur, stagerLocals, did, err,
                   assigned, xq, extractorVars>>

\* A directory is made in test_images: every running watcher of the folder
\* gets the creation event of a directory
MkdirIntake ==
    /\ nArrived * Cardinality(running) < MaxEvents
    /\ NameDir \notin intake
    /\ intake' = intake \cup {NameDir}
    /\ queue' = [s \in Stagers |->
                   IF s \in running
                   THEN Append(queue[s], [src_path |-> NameDir, arr |-> nArrived + 1,
                                         is_directory |-> TRUE])
                   ELSE queue[s]]
    /\ nArrived' = nArrived + 1
    /\ oneAtATime' = (oneAtATime /\ \A s \in running : pc[s] = "idle" /\ queue[s] = <<>>)
    /\ UNCHANGED <<envVars, visionVars, artifactVars, standaloneVars, stagedNames, locked, copied, pc, cur,
                   stagerLocals, did, err, assigned, digitArrived, xq, extractorVars>>

\* A directory whose name holds the marker is made in copied_images
MkdirStaging ==
    /\ nArrived * Cardinality(running) < MaxEvents
    /\ NameGrayDir \notin DOMAIN copied
    /\ nArrived' = nArrived + 1
    /\ copied' = [n \in (DOMAIN copied) \cup {NameGrayDir} |->
                    IF n = NameGrayDir THEN "dir" ELSE copied[n]]
    /\ xq' = Append(xq, [src_path |-> NameGrayDir, is_directory |-> TRUE])
    /\ UNCHANGED <<envVars, visionVars, artifactVars, standaloneVars, intake, stagedNames, locked, queue, pc, cur,
                   stagerLocals, did, err, assigned, digitArrived, oneAtATime,
                   extractorVars>>

\* The staged files another program puts into copied_images: two images of
\* the same ID
NameGray1Png == <<"1", "_", "grayscale", ".", "png">>
NameGray1Jpg == <<"1", "_", "grayscale", ".", "jpg">>
StagedFileNames == {NameGray1Png, NameGray1Jpg}

\* What such a file is: a grayscale image, a corrupt or zero-byte file, or a
\* file the processor may not read
StagedContents == {"gray", "corrupt", "noaccess"}

\* Another program puts a file into copied_images
StagedPut(name, content) ==
    /\ nArrived * Cardinality(running) < MaxEvents
    /\ name \notin DOMAIN copied
    /\ copied' = [n \in (DOMAIN copied) \cup {name} |->
                    IF n = name THEN content ELSE copied[n]]
    /\ xq' = Append(xq, [src_path |-> name, is_directory |-> FALSE])
    /\ nArrived' = nArrived + 1
    /\ UNCHANGED <<envVars, visionVars, artifactVars, standaloneVars, intake, stagedNames, locked,
                   queue, pc, cur, stagerLocals, did, err, assigned, digitArrived,
                   oneAtATime, extractorVars>>

\* A file of copied_images is taken away
StagedRemove(name) ==
    /\ name \in DOMAIN copied
    /\ copied' = [n \in (DOMAIN copied) \ {name} |-> copied[n]]
    /\ UNCHANGED <<envVars, visionVars, artifactVars, standaloneVars, intake, stagedNames, locked,
                   queue, pc, cur, stagerLocals, did, err, assigned, nArrived,
                   digitArrived, oneAtATime, xq, extractorVars>>

\* A file that has not been staged disappears (moved or deleted by its owner)
Remove(name) ==
    /\ name \in intake \ stagedNames
    /\ name \notin locked
    /\ intake' = intake \ {name}
    /\ UNCHANGED <<envVars, visionVars, artifactVars, standaloneVars, stagedNames, locked, copied, queue, pc, cur, stagerLocals, did,
                   err, assigned, nArrived, digitArrived, oneAtATime, xq, extractorVars>>

\* A numbered file is removed from test_images between two stagings
RemoveStaged(name) ==
    /\ name \in intake \cap stagedNames
    /\ \A s \in running : pc[s] = "idle" /\ queue[s] = <<>>
    /\ intake' = intake \ {name}
    /\ stagedNames' = stagedNames \ {name}
    /\ UNCHANGED <<envVars, visionVars, artifactVars, standaloneVars, locked, copied, queue, pc, cur,
                   stagerLocals, did, err, assigned, nArrived, digitArrived, oneAtATime,
                   xq, extractorVars>>

\* Another process holds a file open while a stager is about to rename it
\* (os.rename meets a sharing violation on Windows only; a file held at any
\* other time is seen by no operation of the program)
Lock(name) ==
    /\ platform = "windows"
    /\ name \in intake \ stagedNames
    /\ name \notin locked
    /\ \E s \in running : pc[s] \in {"retry", "rename"} /\ cur[s].src_path = name
    /\ locked' = locked \cup {name}
    /\ UNCHANGED <<envVars, visionVars, artifactVars, standaloneVars, intake, stagedNames, copied, queue, pc, cur, stagerLocals, did,
                   err, assigned, nArrived, digitArrived, oneAtATime, xq, extractorVars>>

Unlock(name) ==
    /\ name \in locked
    /\ locked' = locked \ {name}
    /\ UNCHANGED <<envVars, visionVars, artifactVars, standaloneVars, intake, stagedNames, copied, queue, pc, cur, stagerLocals, did,
                   err, assigned, nArrived, digitArrived, oneAtATime, xq, extractorVars>>

----------------------------------------------------------------------------
(* Watcher 1: ImageRenameHandler *)

\* OnCreatedProceeds with the result of wait_for_file ignored
OnCreatedProceedsAlways(found) == TRUE

\* on_created: `if not self.wait_for_file(...): return`
OnCreatedProceeds(found) == found

\* NextEvent taking the newest event of the queue
NewestEvent(q) == q[Len(q)]

\* The observer thread hands the events of its queue to the handler in the
\* order they were queued
NextEvent(q) == Head(q)

\* on_created: `if event.is_directory: return`
IgnoresEvent(event) == event.is_directory

\* The observer thread takes the next event of its queue and calls
\* on_created, which returns at once for a directory
Dispatch(s) ==
    /\ s \in running
    /\ pc[s] = "idle"
    /\ queue[s] # <<>>
    /\ cur' = [cur EXCEPT ![s] = NextEvent(queue[s])]
    /\ queue' = [queue EXCEPT ![s] = Tail(queue[s])]
    /\ pc' = [pc EXCEPT ![s] =
                IF IgnoresEvent(NextEvent(queue[s])) THEN "idle" ELSE "wait_for_file"]
    /\ elapsed' = [elapsed EXCEPT ![s] = 0]
    /\ next_number' = [next_number EXCEPT ![s] = 0]
    /\ new_filename' = [new_filename EXCEPT ![s] = NoName]
    /\ attempt' = [attempt EXCEPT ![s] = 0]
    /\ nInUse' = [nInUse EXCEPT ![s] = 0]
    /\ nMissing' = [nMissing EXCEPT ![s] = 0]
    /\ calls' = [calls EXCEPT ![s] = 0]
    /\ lastError' = [lastError EXCEPT ![s] = "none"]
    /\ did' = [did EXCEPT ![s] = {}]
    /\ err' = [err EXCEPT ![s] = {}]
    /\ UNCHANGED <<envVars, visionVars, artifactVars, standaloneVars, intake, stagedNames, locked, copied, assigned, nArrived,
                   digitArrived, oneAtATime, xq, extractorVars>>

\* One iteration of wait_for_file's loop: the existence test and, when the
\* file is absent, a sleep of at least half a second followed by the timeout
\* test.  on_created returns when wait_for_file reports failure.
WaitForFile(s) ==
    /\ pc[s] = "wait_for_file"
    /\ IF cur[s].src_path \in intake
       THEN /\ pc' = [pc EXCEPT ![s] = IF OnCreatedProceeds(TRUE) THEN "scan" ELSE "idle"]
            /\ elapsed' = [elapsed EXCEPT ![s] = 0]
            /\ UNCHANGED err
       ELSE \E t \in {elapsed[s] + 1, TimeoutTicks + 1} :
              IF TimedOut(t)
              THEN /\ err' = [err EXCEPT ![s] = @ \cup {"FileNeverAppeared"}]
                   /\ pc' = [pc EXCEPT ![s] =
                               IF OnCreatedProceeds(FALSE) THEN "scan" ELSE "idle"]
                   /\ elapsed' = [elapsed EXCEPT ![s] = 0]
              ELSE /\ elapsed' = [elapsed EXCEPT ![s] = t]
                   /\ UNCHANGED <<pc, err>>
    /\ UNCHANGED <<envVars, visionVars, artifactVars, standaloneVars, intake, stagedNames, locked, copied, queue, cur, next_number,
                   new_filename, attempt, nInUse, nMissing, calls, lastError, did, assigned,
                   nArrived, digitArrived, oneAtATime, xq, extractorVars>>

\* The outcomes of a call on a folder: it returns (TRUE), or raises OSError
\* where the folders can fail
FolderCallOutcomes == IF faulty THEN BOOLEAN ELSE {TRUE}

\* int(name) raises ValueError for a stem that isdigit() accepted
ScanRaises(listing) == \E f \in listing : IsDigit(Stem(f)) /\ ~IsDecimal(Stem(f))

\* rename_new_image: the directory scan and the choice of the new name.
\* os.listdir and int() are called outside any try: their exception leaves
\* on_created and ends the observer thread that called it.
Scan(s) ==
    /\ pc[s] = "scan"
    /\ \E listed \in FolderCallOutcomes :
         IF listed /\ ~ScanRaises(intake)
         THEN /\ next_number' = [next_number EXCEPT ![s] = NextNumber(intake)]
              /\ new_filename' = [new_filename EXCEPT ![s] =
                                    NewFilename(NextNumber(intake), cur[s].src_path)]
              /\ attempt' = [attempt EXCEPT ![s] = 0]
              /\ did' = [did EXCEPT ![s] = @ \cup {"scan"}]
              /\ pc' = [pc EXCEPT ![s] = "retry"]
              /\ UNCHANGED err
         ELSE /\ pc' = [pc EXCEPT ![s] = "crashed"]
              /\ err' = [err EXCEPT ![s] = @ \cup {"Unhandled"}]
              /\ UNCHANGED <<next_number, new_filename, attempt, did>>
    /\ UNCHANGED <<envVars, visionVars, artifactVars, standaloneVars, intake, stagedNames, locked, copied, queue, cur, elapsed,
                   nInUse, nMissing, calls, lastError, assigned, nArrived,
                   digitArrived, oneAtATime, xq, extractorVars>>

\* The head of the retry loop: the loop test, and the test that the source
\* still exists (a missing source costs one attempt and a sleep)
Retry(s) ==
    /\ pc[s] = "retry"
    /\ IF ~LoopContinues(attempt[s])
       THEN /\ err' = [err EXCEPT ![s] = @ \cup {"RenameExhausted"}]
            /\ pc' = [pc EXCEPT ![s] = "idle"]
            /\ UNCHANGED <<attempt, nMissing>>
       ELSE IF cur[s].src_path \notin intake
       THEN /\ attempt' = [attempt EXCEPT ![s] = @ + 1]
            /\ nMissing' = [nMissing EXCEPT ![s] = @ + 1]
            /\ UNCHANGED <<pc, err>>
       ELSE /\ pc' = [pc EXCEPT ![s] = "rename"]
            /\ UNCHANGED <<attempt, nMissing, err>>
    /\ UNCHANGED <<envVars, visionVars, artifactVars, standaloneVars, intake, stagedNames, locked, copied, queue, cur, elapsed,
                   next_number, new_filename, nInUse, calls, lastError, did, assigned,
                   nArrived, digitArrived, oneAtATime, xq, extractorVars>>

\* os.rename(file_path, new_filepath) and the handling of its OSError
Rename(s) ==
    LET src == cur[s].src_path
        dst == new_filename[s]
        e == OsRename(src, dst)
    IN  /\ pc[s] = "rename"
        /\ calls' = [calls EXCEPT ![s] = @ + 1]
        /\ lastError' = [lastError EXCEPT ![s] = e]
        /\ IF e = "ok"
           THEN /\ intake' = (intake \ {src}) \cup {dst}
                /\ stagedNames' = (stagedNames \ {src}) \cup {dst}
                /\ assigned' = Append(assigned, [arr |-> cur[s].arr, id |-> next_number[s],
                                                 by |-> s, src |-> src, dst |-> dst])
                /\ did' = [did EXCEPT ![s] = @ \cup {"rename"}]
                /\ pc' = [pc EXCEPT ![s] = "copy"]
                /\ UNCHANGED <<attempt, nInUse, err>>
           ELSE IF IsFileInUse(e)
           THEN /\ attempt' = [attempt EXCEPT ![s] = @ + 1]
                /\ nInUse' = [nInUse EXCEPT ![s] = @ + 1]
                /\ pc' = [pc EXCEPT ![s] = "retry"]
                /\ UNCHANGED <<intake, stagedNames, assigned, did, err>>
           ELSE /\ err' = [err EXCEPT ![s] = @ \cup {"RenameFatal"}]
                /\ pc' = [pc EXCEPT ![s] = "idle"]
                /\ UNCHANGED <<intake, stagedNames, assigned, did, attempt, nInUse>>
        /\ UNCHANGED <<envVars, visionVars, artifactVars, standaloneVars, locked, copied, queue, cur, elapsed, next_number,
                       new_filename, nMissing, nArrived, digitArrived, oneAtATime, xq,
                       extractorVars>>

\* The loop is left by `break`: its counters are dead from here on
LoopLocalsDropped(s) ==
    /\ attempt' = [attempt EXCEPT ![s] = 0]
    /\ nInUse' = [nInUse EXCEPT ![s] = 0]
    /\ nMissing' = [nMissing EXCEPT ![s] = 0]
    /\ calls' = [calls EXCEPT ![s] = 0]
    /\ UNCHANGED lastError

\* copied_images with one file added or replaced
WithFile(folder, name, content) ==
    [n \in (DOMAIN folder) \cup {name} |-> IF n = name THEN content ELSE folder[n]]

\* AfterFailedConversion removing the copy it could not convert
AfterFailedConversionCleanup(folder, copy) ==
    [n \in (DOMAIN folder) \ {copy} |-> folder[n]]

\* copied_images after `except Exception as e: print(...)` in
\* convert_to_grayscale: the handler only reports
AfterFailedConversion(folder, copy) == folder

\* The creation event the staging watcher receives for a file that did not
\* exist before (replacing a file raises no creation event)
CreatedEvents(folder, name) ==
    IF name \in DOMAIN folder THEN <<>>
    ELSE <<[src_path |-> name, is_directory |-> FALSE]>>

\* os.makedirs(copy_folder, exist_ok=True), called outside any try, and the
\* start of shutil.copy2: the destination file is created and its content is
\* being written
CopyStart(s) ==
    LET copy == CopyFilename(new_filename[s])
    IN  /\ pc[s] = "copy"
        /\ \E made \in FolderCallOutcomes, ok \in BOOLEAN :
             IF ~made
             THEN /\ pc' = [pc EXCEPT ![s] = "crashed"]
                  /\ err' = [err EXCEPT ![s] = @ \cup {"Unhandled"}]
                  /\ UNCHANGED <<copied, xq, did>>
             ELSE IF ok /\ new_filename[s] \in intake
             THEN /\ copied' = WithFile(copied, copy, "copying")
                  /\ xq' = xq \o CreatedEvents(copied, copy)
                  /\ did' = [did EXCEPT ![s] = @ \cup {"makedirs"}]
                  /\ pc' = [pc EXCEPT ![s] = "copying"]
                  /\ UNCHANGED err
             ELSE /\ did' = [did EXCEPT ![s] = @ \cup {"makedirs"}]
                  /\ err' = [err EXCEPT ![s] = @ \cup {"CopyFailed"}]
                  /\ pc' = [pc EXCEPT ![s] = "idle"]
                  /\ UNCHANGED <<copied, xq>>
        /\ LoopLocalsDropped(s)
        /\ UNCHANGED <<envVars, visionVars, artifactVars, standaloneVars, intake, stagedNames, locked, queue, cur, elapsed,
                       next_number, new_filename, assigned, nArrived, digitArrived,
                       oneAtATime, extractorVars>>

\* The end of shutil.copy2: the copy is complete, or the copy raised and
\* `except Exception` returns, leaving what was written
CopyEnd(s) ==
    LET copy == CopyFilename(new_filename[s])
    IN  /\ pc[s] = "copying"
        /\ \E ok \in BOOLEAN :
             IF ok
             THEN /\ copied' = WithFile(copied, copy, "raw")
                  /\ did' = [did EXCEPT ![s] = @ \cup {"copy"}]
                  /\ pc' = [pc EXCEPT ![s] = "convert"]
                  /\ UNCHANGED err
             ELSE /\ err' = [err EXCEPT ![s] = @ \cup {"CopyFailed"}]
                  /\ pc' = [pc EXCEPT ![s] = "idle"]
                  /\ UNCHANGED <<copied, did>>
        /\ UNCHANGED <<envVars, visionVars, artifactVars, standaloneVars, intake, stagedNames, locked, queue, cur, stagerLocals,
                       assigned, nArrived, digitArrived, oneAtATime, xq, extractorVars>>

\* convert_to_grayscale: Image.open and img.convert("L"); on success
\* grayscale.save starts to overwrite the copy in place
Convert(s) ==
    LET copy == CopyFilename(new_filename[s])
    IN  /\ pc[s] = "convert"
        /\ \E ok \in BOOLEAN :
             IF ok
             THEN /\ copied' = WithFile(copied, copy, "saving")
                  /\ pc' = [pc EXCEPT ![s] = "save"]
                  /\ UNCHANGED err
             ELSE /\ err' = [err EXCEPT ![s] = @ \cup {"GrayscaleConversionFailed"}]
                  /\ pc' = [pc EXCEPT ![s] = "idle"]
                  /\ copied' = AfterFailedConversion(copied, copy)
        /\ UNCHANGED <<envVars, visionVars, artifactVars, standaloneVars, intake, stagedNames, locked, queue, cur, stagerLocals, did,
                       assigned, nArrived, digitArrived, oneAtATime, xq, extractorVars>>

\* convert_to_grayscale: grayscale.save(image_path) completes or raises
Save(s) ==
    LET copy == CopyFilename(new_filename[s])
    IN  /\ pc[s] = "save"
        /\ \E ok \in BOOLEAN :
             IF ok
             THEN /\ copied' = WithFile(copied, copy, "gray")
                  /\ did' = [did EXCEPT ![s] = @ \cup {"convert"}]
                  /\ UNCHANGED err
             ELSE /\ err' = [err EXCEPT ![s] = @ \cup {"GrayscaleConversionFailed"}]
                  /\ copied' = AfterFailedConversion(copied, copy)
                  /\ UNCHANGED did
        /\ pc' = [pc EXCEPT ![s] = "idle"]
        /\ UNCHANGED <<envVars, visionVars, artifactVars, standaloneVars, intake, stagedNames, locked, queue, cur, stagerLocals,
                       assigned, nArrived, digitArrived, oneAtATime, xq, extractorVars>>

----------------------------------------------------------------------------
(* Watcher 2: ImageHandler and process_image on copied_images *)

\* Routed letting directories through
RoutedWhateverKind(event) == HasGrayscaleMarker(event.src_path)

\* Routed without the test for the marker
RoutedAnyFile(event) == ~event.is_directory

\* if not event.is_directory and "grayscale" in os.path.basename(event.src_path)
Routed(event) == ~event.is_directory /\ HasGrayscaleMarker(event.src_path)

\* ImageHandler.on_created: the test of the event and the half-second sleep
XOnCreated ==
    /\ xpc = "idle"
    /\ xq # <<>>
    /\ xq' = Tail(xq)
    /\ IF Routed(NextEvent(xq))
       THEN /\ xcur' = NextEvent(xq).src_path
            /\ xpc' = "process_image"
            /\ xrouted' = Append(xrouted, NextEvent(xq).src_path)
       ELSE UNCHANGED <<xcur, xpc, xrouted>>
    /\ UNCHANGED <<envVars, visionVars, artifactVars, standaloneVars, intake, stagedNames, locked, copied, queue, pc,
                   cur, stagerLocals, did, err, assigned, nArrived, digitArrived,
                   oneAtATime, xread, xcenters, xresult>>

\* The rectangle centers cv2 can find in an image: none, one, or two
CenterA == <<12, 5>>
CenterB == <<3, 40>>
CenterLists == {<<>>, <<CenterA>>, <<CenterB, CenterA>>}

\* cv2.imread(filepath, cv2.IMREAD_GRAYSCALE) returns an image (TRUE) or
\* None (FALSE): None for a corrupt or zero-byte file, either for a file
\* that is being written or is no image
ImreadOutcomes(content) == IF content = "corrupt" THEN {FALSE} ELSE BOOLEAN

\* GoesOnAfterImread with the test for None forgotten
GoesOnAfterImreadAlways(decoded) == TRUE

\* `if image is None: ... return`
GoesOnAfterImread(decoded) == decoded

\* GoesOnToWrite with the test for an empty list forgotten
GoesOnToWriteAlways(centers) == TRUE

\* `if not rectangle_centers: ... return`
GoesOnToWrite(centers) == centers # <<>>

\* process_image from the existence test to the list of centers: the file
\* is decoded in the state it has now; an exception of cv2 is caught by
\* `except Exception` and reported
XProcessImage ==
    /\ xpc = "process_image"
    /\ IF xcur \notin DOMAIN copied
       THEN /\ xresult' = "FileNotFound"
            /\ xpc' = "idle"
            /\ UNCHANGED <<xread, xcenters>>
       ELSE IF copied[xcur] = "noaccess"
       THEN /\ xresult' = "FileUnreadable"
            /\ xpc' = "idle"
            /\ UNCHANGED <<xread, xcenters>>
       ELSE /\ xread' = copied[xcur]
            /\ \E decoded \in ImreadOutcomes(copied[xcur]), centers \in CenterLists,
                  raised \in BOOLEAN :
                 IF ~GoesOnAfterImread(decoded)
                 THEN xresult' = "DecodeFailed" /\ xpc' = "idle" /\ UNCHANGED xcenters
                 ELSE IF raised
                 THEN xresult' = "ExtractionFailed" /\ xpc' = "idle" /\ UNCHANGED xcenters
                 ELSE IF ~GoesOnToWrite(centers)
                 THEN xresult' = "NoRectanglesFound" /\ xpc' = "idle"
                      /\ UNCHANGED xcenters
                 ELSE xresult' = "none" /\ xpc' = "write_coords" /\ xcenters' = centers
    /\ UNCHANGED <<envVars, visionVars, artifactVars, standaloneVars, intake, stagedNames, locked, copied, queue, pc,
                   cur, stagerLocals, did, err, assigned, nArrived, digitArrived,
                   oneAtATime, xq, xcur, xrouted>>

\* f.write(f"{center[0]}, {center[1]}") with the newline left out
CoordLineNoNewline(center) == FormatInt(center[1]) \o <<",", " ">> \o FormatInt(center[2])

\* f.write(f"{center[0]}, {center[1]}\n"): the text of one center
CoordLine(center) ==
    FormatInt(center[1]) \o <<",", " ">> \o FormatInt(center[2]) \o <<"\n">>

\* for center in rectangle_centers: f.write(...)
RECURSIVE WriteAll(_, _)
WriteAll(text, centers) ==
    IF centers = <<>> THEN text
    ELSE WriteAll(text \o CoordLine(Head(centers)), Tail(centers))

\* The text of a file, <<>> when it does not exist
TextOf(folder, name) == IF name \in DOMAIN folder THEN folder[name] ELSE <<>>

\* OpenForWrite in mode "a"
OpenForAppend(old) == old

\* open(txt_filename, "w"): the file is created or truncated
OpenForWrite(old) == <<>>

\* A folder without one name
WithoutFile(folder, name) == [n \in (DOMAIN folder) \ {name} |-> folder[n]]

\* history: the complete writes of a coordinate file since it was last
\* left incomplete
WritesSoFar(txt) == IF txt \in DOMAIN lastCenters THEN lastCenters[txt].writes ELSE 0

\* process_image: the coordinate artifact is written next to the image.
\* open() can raise, leaving the folder as it is, and a write can raise after
\* open() has created or truncated the file; both end in `except Exception`.
XWriteCoords ==
    LET txt == CoordsFilename(xcur)
        opened == OpenForWrite(TextOf(artifacts, txt))
    IN  /\ xpc = "write_coords"
        /\ \E outcome \in {"ok", "open_failed", "write_failed"} :
             IF outcome = "open_failed"
             THEN /\ xresult' = "CoordinateWriteFailed"
                  /\ UNCHANGED <<copied, xq, artifacts, lastCenters>>
             ELSE /\ copied' = WithFile(copied, txt, "coords")
                  /\ xq' = xq \o CreatedEvents(copied, txt)
                  /\ IF outcome = "ok"
                     THEN /\ artifacts' = WithFile(artifacts, txt, WriteAll(opened, xcenters))
                          /\ lastCenters' = WithFile(lastCenters, txt,
                                              [centers |-> xcenters,
                                               writes |-> WritesSoFar(txt) + 1])
                          /\ xresult' = "Written"
                     ELSE /\ artifacts' = WithFile(artifacts, txt, opened)
                          /\ lastCenters' = WithoutFile(lastCenters, txt)
                          /\ xresult' = "CoordinateWriteFailed"
        /\ xpc' = "idle"
        /\ xcenters' = <<>>
        /\ UNCHANGED <<envVars, visionVars, standaloneVars, intake, stagedNames, locked, queue, pc, cur,
                       stagerLocals, did, err, assigned, nArrived, digitArrived,
                       oneAtATime, xcur, xread, xrouted>>

----------------------------------------------------------------------------
(* The stand-alone processor ("image processing.py"): ImageHandler with    *)
(* get_new_filename and process_image on its watched folder                *)

\* The files other programs put into the watched folder
NameA == <<"a", ".", "png">>
NameB == <<"b", ".", "PNG">>
NameN == <<"n", ".", "txt">>
NameM == <<"m", ".", "txt">>
WatchedNames == {NameA, NameB, NameN, NameM}

\* IMAGE_EXTENSIONS = {".jpg", ".jpeg", ".png", ".bmp", ".tiff", ".tif"}
IMAGE_EXTENSIONS ==
    {<<".", "jpg">>, <<".", "jpeg">>, <<".", "png">>, <<".", "bmp">>, <<".", "tiff">>,
     <<".", "tif">>}

\* ext.lower()
Lower(ext) == [i \in 1..Len(ext) |-> IF ext[i] = "PNG" THEN "png" ELSE ext[i]]

\* get_new_filename: the new name and the value image_counter has afterwards
GetNewFilename(original_name, counter) ==
    LET ext_lower == Lower(Ext(original_name))
    IN  IF ext_lower \in IMAGE_EXTENSIONS
        THEN <<<<"image", "_">> \o FormatInt(counter + 1) \o ext_lower, counter + 1>>
        ELSE IF ext_lower = <<".", "txt">>
        THEN <<<<"coords", "_">> \o FormatInt(counter) \o <<".", "txt">>, counter>>
        ELSE <<original_name, counter>>

\* bw_filename = f"{base_name}_bw{ext}"
BwFilename(path) == Stem(path) \o <<"_", "bw">> \o Ext(path)

\* txt_filename = f"{name_without_ext}_coords.txt"
StemCoordsFilename(path) == Stem(path) \o <<"_", "coords", ".", "txt">>

\* os.rename(event.src_path, new_filepath) in the watched folder succeeds
WatchedRenameSucceeds(src, dst) ==
    /\ src \in wfolder
    /\ ~(dst \in wfolder /\ dst # src /\ platform = "windows")

\* The creation event of a file that did not exist in the watched folder
WatchedCreatedEvents(name) ==
    IF name \in wfolder THEN <<>> ELSE <<[src_path |-> name, is_directory |-> FALSE]>>

\* Another program puts a file into the watched folder
SaPut(name) ==
    /\ nArrived < MaxEvents
    /\ name \notin wfolder
    /\ wfolder' = wfolder \cup {name}
    /\ wq' = Append(wq, [src_path |-> name, is_directory |-> FALSE])
    /\ nArrived' = nArrived + 1
    /\ UNCHANGED <<pipelineVars, visionVars, wpc, wcur, wnew, wfound, image_counter, wnamed>>

\* The owner of a file takes it back before the processor has renamed it
SaRemove(name) ==
    /\ name \in wfolder
    /\ wfolder' = wfolder \ {name}
    /\ UNCHANGED <<pipelineVars, visionVars, nArrived, wq, wpc, wcur, wnew, wfound, image_counter,
                   wnamed>>

\* ImageHandler.on_created: the test for a directory and the half-second sleep
SaOnCreated ==
    /\ wpc = "idle"
    /\ wq # <<>>
    /\ wq' = Tail(wq)
    /\ IF IgnoresEvent(NextEvent(wq))
       THEN UNCHANGED <<wcur, wpc>>
       ELSE wcur' = NextEvent(wq).src_path /\ wpc' = "rename"
    /\ UNCHANGED <<pipelineVars, visionVars, nArrived, wfolder, wnew, wfound, image_counter, wnamed>>

\* ImageHandler.on_created: get_new_filename, os.rename, and the choice of
\* processing the renamed file
SaRename ==
    LET named == GetNewFilename(wcur, image_counter)
        new_filepath == named[1]
    IN  /\ wpc = "rename"
        /\ image_counter < MaxImages
        /\ image_counter' = named[2]
        /\ wnew' = new_filepath
        /\ IF WatchedRenameSucceeds(wcur, new_filepath)
           THEN /\ wfolder' = (wfolder \ {wcur}) \cup {new_filepath}
                /\ wnamed' = Append(wnamed, [src |-> wcur, dst |-> new_filepath])
                /\ wpc' = IF Lower(Ext(new_filepath)) \in IMAGE_EXTENSIONS
                          THEN "process_image" ELSE "idle"
           ELSE /\ wpc' = "idle"
                /\ UNCHANGED <<wfolder, wnamed>>
        /\ UNCHANGED <<pipelineVars, visionVars, nArrived, wq, wcur, wfound>>

\* process_image up to the first debug window: the tests of the path, the
\* decoding, and the thresholded copy written beside the image
SaProcessImage ==
    /\ wpc = "process_image"
    /\ IF wnew \notin wfolder
       THEN wpc' = "idle" /\ UNCHANGED <<wfolder, wq, wfound>>
       ELSE \E decoded \in BOOLEAN, found \in BOOLEAN :
              IF ~GoesOnAfterImread(decoded)
              THEN wpc' = "idle" /\ UNCHANGED <<wfolder, wq, wfound>>
              ELSE /\ wfolder' = wfolder \cup {BwFilename(wnew)}
                   /\ wq' = wq \o WatchedCreatedEvents(BwFilename(wnew))
                   /\ wfound' = found
                   /\ wpc' = "show"
    /\ UNCHANGED <<pipelineVars, visionVars, nArrived, wcur, wnew, image_counter, wnamed>>

\* cv2.imshow and cv2.waitKey(0): process_image goes on when the user has
\* dismissed the debug windows
SaShowWindows ==
    /\ wpc = "show"
    /\ wpc' = IF wfound THEN "write_coords" ELSE "idle"
    /\ UNCHANGED <<pipelineVars, visionVars, nArrived, wfolder, wq, wcur, wnew, wfound, image_counter,
                   wnamed>>

\* process_image: the coordinates are written beside the image
SaWriteCoords ==
    /\ wpc = "write_coords"
    /\ \E ok \in BOOLEAN :
         IF ok
         THEN /\ wfolder' = wfolder \cup {StemCoordsFilename(wnew)}
              /\ wq' = wq \o WatchedCreatedEvents(StemCoordsFilename(wnew))
         ELSE UNCHANGED <<wfolder, wq>>
    /\ wpc' = "idle"
    /\ wfound' = FALSE
    /\ UNCHANGED <<pipelineVars, visionVars, nArrived, wcur, wnew, image_counter, wnamed>>

----------------------------------------------------------------------------
(* process_image from the decoded image to the coordinate file: threshold, *)
(* border suppression, external contours, the 4-vertex test, the centroid. *)
(* A pixel is <<x, y>>: x its column, y its row, both counted from 0.      *)

Columns == 0..(Width - 1)
Rows == 0..(Height - 1)
Pixels == Columns \X Rows

\* cv2.threshold with THRESH_BINARY in place of THRESH_BINARY_INV
ThresholdBinary(gray) == IF gray > THRESH THEN MAXVAL ELSE 0

\* cv2.threshold(image, 50, 255, cv2.THRESH_BINARY_INV) on one pixel:
\* 0 where the gray value is above the threshold, maxval elsewhere
ThresholdBinaryInv(gray) == IF gray > THRESH THEN 0 ELSE MAXVAL

\* ret, thresh = cv2.threshold(...)
Threshold(img) == [p \in Pixels |-> ThresholdBinaryInv(img[p])]

\* The pixels of thresh[0, :], thresh[-1, :], thresh[:, 0], thresh[:, -1]
OnBorder(p) == p[1] = 0 \/ p[1] = Width - 1 \/ p[2] = 0 \/ p[2] = Height - 1

\* thresh[0, :] = 0; thresh[-1, :] = 0; thresh[:, 0] = 0; thresh[:, -1] = 0
BorderSuppressed(mask) == [p \in Pixels |-> IF OnBorder(p) THEN 0 ELSE mask[p]]

\* cv2.findContours reads every non-zero pixel as foreground
Foreground(mask) == {p \in Pixels : mask[p] # 0}

Abs(n) == IF n < 0 THEN -n ELSE n

\* Two different pixels that touch by a side or by a corner
Adjacent(p, q) == p # q /\ Abs(p[1] - q[1]) <= 1 /\ Abs(p[2] - q[2]) <= 1

\* The 8-connected component of fg that holds the pixels of S
RECURSIVE Grow(_, _, _)
Grow(S, frontier, fg) ==
    LET new == {q \in fg \ S : \E p \in frontier : Adjacent(p, q)}
    IN  IF new = {} THEN S ELSE Grow(S \cup new, new, fg)

\* The first pixel of a set in the order of the raster scan
FirstPixel(S) ==
    CHOOSE p \in S : \A q \in S : p[2] < q[2] \/ (p[2] = q[2] /\ p[1] <= q[1])

\* The 8-connected components of the foreground, in the order in which the
\* raster scan meets them
RECURSIVE Components(_)
Components(fg) ==
    IF fg = {} THEN <<>>
    ELSE LET c == Grow({FirstPixel(fg)}, {FirstPixel(fg)}, fg)
         IN  <<c>> \o Components(fg \ c)

MinOf(S) == CHOOSE n \in S : \A m \in S : n <= m
MaxOf(S) == CHOOSE n \in S : \A m \in S : n >= m

\* RETR_EXTERNAL, CHAIN_APPROX_SIMPLE: the outer contour of a component
\* whose outline is its bounding rectangle, as the end points of its
\* straight runs: four corners, the two ends of a line one pixel wide, or a
\* single pixel.  A hole in the component gives no contour.
ExternalContour(c) ==
    LET x0 == MinOf({p[1] : p \in c})
        x1 == MaxOf({p[1] : p \in c})
        y0 == MinOf({p[2] : p \in c})
        y1 == MaxOf({p[2] : p \in c})
    IN  IF x0 = x1 /\ y0 = y1 THEN <<<<x0, y0>>>>
        ELSE IF x0 = x1 THEN <<<<x0, y0>>, <<x0, y1>>>>
        ELSE IF y0 = y1 THEN <<<<x0, y0>>, <<x1, y0>>>>
        ELSE <<<<x0, y0>>, <<x0, y1>>, <<x1, y1>>, <<x1, y0>>>>

Reverse(seq) == [i \in 1..Len(seq) |-> seq[Len(seq) + 1 - i]]

\* contours, hierarchy = cv2.findContours(thresh, cv2.RETR_EXTERNAL,
\* cv2.CHAIN_APPROX_SIMPLE): one contour per component, the one found last
\* in the scan listed first
FindContours(mask) ==
    LET comps == Components(Foreground(mask))
    IN  Reverse([i \in 1..Len(comps) |-> ExternalContour(comps[i])])

\* The point after and the point before point i of a closed contour
NextPoint(cnt, i) == cnt[(i % Len(cnt)) + 1]
PrevPoint(cnt, i) == cnt[((i + Len(cnt) - 2) % Len(cnt)) + 1]

\* cv2.arcLength(cnt, True) of a closed contour whose segments are parallel
\* to the axes
ArcLength(cnt) ==
    LET seg(i) == Abs(NextPoint(cnt, i)[1] - cnt[i][1])
                    + Abs(NextPoint(cnt, i)[2] - cnt[i][2])
        sum[i \in 0..Len(cnt)] == IF i = 0 THEN 0 ELSE sum[i - 1] + seg(i)
    IN  sum[Len(cnt)]

\* Point i of the contour lies farther than epsilon = 0.02 * arcLength from
\* the line through its two neighbours (from the neighbour itself, when the
\* two neighbours are one point); distances are compared by their squares
FartherThanEpsilon(cnt, i) ==
    LET a == PrevPoint(cnt, i)
        b == NextPoint(cnt, i)
        p == cnt[i]
        dx == b[1] - a[1]
        dy == b[2] - a[2]
        px == p[1] - a[1]
        py == p[2] - a[2]
        cross == px * dy - py * dx
        per == ArcLength(cnt)
    IN  IF dx = 0 /\ dy = 0
        THEN (px * px + py * py) * 1000 * 1000 > EpsilonPerMille * EpsilonPerMille * per * per
        ELSE cross * cross * 1000 * 1000
               > EpsilonPerMille * EpsilonPerMille * per * per * (dx * dx + dy * dy)

\* The subsequence of cnt at the positions of keep
RECURSIVE SelectPoints(_, _, _)
SelectPoints(cnt, i, keep) ==
    IF i > Len(cnt) THEN <<>>
    ELSE (IF i \in keep THEN <<cnt[i]>> ELSE <<>>) \o SelectPoints(cnt, i + 1, keep)

\* approx = cv2.approxPolyDP(cnt, epsilon, True): the corners that are not
\* within epsilon of the polygon through the others
ApproxPolyDP(cnt) ==
    IF Len(cnt) <= 2 THEN cnt
    ELSE SelectPoints(cnt, 1, {i \in 1..Len(cnt) : FartherThanEpsilon(cnt, i)})

\* M = cv2.moments(cnt): the moments of the polygon through the points of
\* the contour (Green's formula), as integers: twice m00, six times m10 and
\* six times m01, each taken positive as cv2 does
Moments(cnt) ==
    LET cr(i) == cnt[i][1] * NextPoint(cnt, i)[2] - NextPoint(cnt, i)[1] * cnt[i][2]
        a[i \in 0..Len(cnt)] == IF i = 0 THEN 0 ELSE a[i - 1] + cr(i)
        sx[i \in 0..Len(cnt)] ==
            IF i = 0 THEN 0 ELSE sx[i - 1] + (cnt[i][1] + NextPoint(cnt, i)[1]) * cr(i)
        sy[i \in 0..Len(cnt)] ==
            IF i = 0 THEN 0 ELSE sy[i - 1] + (cnt[i][2] + NextPoint(cnt, i)[2]) * cr(i)
    IN  [m00x2 |-> Abs(a[Len(cnt)]), m10x6 |-> Abs(sx[Len(cnt)]),
         m01x6 |-> Abs(sy[Len(cnt)])]

\* IsDegenerate with the test left out
IsDegenerateNever(M) == FALSE

\* if M["m00"] == 0: continue
IsDegenerate(M) == M.m00x2 = 0

\* cX = int(M["m10"] / M["m00"]); cY = int(M["m01"] / M["m00"])
Centroid(M) == <<M.m10x6 \div (3 * M.m00x2), M.m01x6 \div (3 * M.m00x2)>>

\* The 4-vertex test: if len(approx) == 4
IsRectangle(cnt) == Len(ApproxPolyDP(cnt)) = 4

\* for cnt in contours: ... rectangle_centers.append((cX, cY)); a division
\* by a zero m00 raises ZeroDivisionError and ends the loop
RECURSIVE CollectCenters(_, _)
CollectCenters(cnts, centers) ==
    IF cnts = <<>> THEN [centers |-> centers, raised |-> FALSE]
    ELSE LET cnt == Head(cnts)
             M == Moments(cnt)
         IN  IF ~IsRectangle(cnt) THEN CollectCenters(Tail(cnts), centers)
             ELSE IF IsDegenerate(M) THEN CollectCenters(Tail(cnts), centers)
             ELSE IF M.m00x2 = 0 THEN [centers |-> centers, raised |-> TRUE]
             ELSE CollectCenters(Tail(cnts), Append(centers, Centroid(M)))

\* InitialCenters with the list of the run before kept
InitialCentersKept(previous) == previous

\* rectangle_centers = []
InitialCenters(previous) == <<>>

\* The test pictures: one axis-parallel rectangle of pixels x0..x1, y0..y1
\* on a plain ground, dark on light anywhere in the canvas, or light on
\* dark and two pixels or more away from the edge of the canvas.  The gray
\* values are black and white, or the two values next to the threshold.
Intervals(lo, hi) == {r \in (lo..hi) \X (lo..hi) : r[1] <= r[2]}

DarkOnLight == {[rect |-> 0, ground |-> 255], [rect |-> 50, ground |-> 51]}
LightOnDark == {[rect |-> 255, ground |-> 0], [rect |-> 51, ground |-> 50]}

Scenes ==
    {[kind |-> "dark_on_light", gray |-> g, xs |-> xs, ys |-> ys] :
        g \in DarkOnLight, xs \in Intervals(0, Width - 1), ys \in Intervals(0, Height - 1)}
    \cup
    {[kind |-> "light_on_dark", gray |-> g, xs |-> xs, ys |-> ys] :
        g \in LightOnDark, xs \in Intervals(2, Width - 3), ys \in Intervals(2, Height - 3)}

\* The pixels of the rectangle of a picture
RectanglePixels(sc) ==
    {p \in Pixels : /\ sc.xs[1] <= p[1] /\ p[1] <= sc.xs[2]
                    /\ sc.ys[1] <= p[2] /\ p[2] <= sc.ys[2]}

\* cv2.imread(filepath, cv2.IMREAD_GRAYSCALE) of the file of a picture
Render(sc) ==
    [p \in Pixels |-> IF p \in RectanglePixels(sc) THEN sc.gray.rect ELSE sc.gray.ground]

\* process_image is called with the image file of a picture; no coordinate
\* file exists
InitExtract ==
    /\ platform = "posix"
    /\ faulty = FALSE
    /\ running = {1}
    /\ FreshWatchers
    /\ scene \in Scenes
    /\ image = Render(scene)
    /\ thresh = <<>>
    /\ contours = <<>>
    /\ rectangle_centers = <<>>
    /\ vpc = "threshold"
    /\ vtext = <<>>
    /\ vruns = <<>>

\* The contours cv2.findContours can hand to the loop: a square, a
\* rectangle, a line one pixel wide, a single pixel, a thick L (six
\* corners), and a thin L that is followed forth and back (four points that
\* enclose no area)
ContourSquare == <<<<1, 1>>, <<1, 3>>, <<3, 3>>, <<3, 1>>>>
ContourRectangle == <<<<4, 1>>, <<4, 2>>, <<7, 2>>, <<7, 1>>>>
ContourLine == <<<<1, 1>>, <<5, 1>>>>
ContourPixel == <<<<2, 2>>>>
ContourThickL == <<<<1, 1>>, <<1, 4>>, <<4, 4>>, <<4, 3>>, <<2, 3>>, <<2, 1>>>>
ContourThinL == <<<<1, 1>>, <<1, 3>>, <<3, 3>>, <<1, 3>>>>
ContourShapes ==
    {ContourSquare, ContourRectangle, ContourLine, ContourPixel, ContourThickL,
     ContourThinL}

\* The lists of at most MaxContours contours
ContourLists ==
    UNION {[1..n -> ContourShapes] : n \in 0..MaxContours}

\* process_image has reached the loop with some list of contours
InitLoop ==
    /\ platform = "posix"
    /\ faulty = FALSE
    /\ running = {1}
    /\ FreshWatchers
    /\ scene = NoScene
    /\ image = <<>>
    /\ thresh = <<>>
    /\ contours \in ContourLists
    /\ rectangle_centers = <<>>
    /\ vpc = "centers"
    /\ vtext = <<>>
    /\ vruns = <<>>

\* ret, thresh = cv2.threshold(image, 50, 255, cv2.THRESH_BINARY_INV)
VThreshold ==
    /\ vpc = "threshold"
    /\ thresh' = Threshold(image)
    /\ vpc' = "border"
    /\ UNCHANGED <<pipelineVars, nArrived, standaloneVars, scene, image, contours,
                   rectangle_centers, vtext, vruns>>

\* The four assignments that zero the border of thresh
VSuppressBorder ==
    /\ vpc = "border"
    /\ thresh' = BorderSuppressed(thresh)
    /\ vpc' = "find_contours"
    /\ UNCHANGED <<pipelineVars, nArrived, standaloneVars, scene, image, contours,
                   rectangle_centers, vtext, vruns>>

\* cv2.findContours, the debug window, and rectangle_centers = []
VFindContours ==
    /\ vpc = "find_contours"
    /\ contours' = FindContours(thresh)
    /\ rectangle_centers' = InitialCenters(rectangle_centers)
    /\ vpc' = "centers"
    /\ UNCHANGED <<pipelineVars, nArrived, standaloneVars, scene, image, thresh, vtext,
                   vruns>>

\* The loop over the contours and `if not rectangle_centers: return`; an
\* exception ends process_image in `except Exception`
VCollectCenters ==
    LET r == CollectCenters(contours, rectangle_centers)
    IN  /\ vpc = "centers"
        /\ rectangle_centers' = r.centers
        /\ IF r.raised
           THEN /\ vpc' = "done"
                /\ vruns' = Append(vruns, [result |-> "ExtractionFailed",
                                           centers |-> r.centers, text |-> vtext])
           ELSE IF ~GoesOnToWrite(r.centers)
           THEN /\ vpc' = "done"
                /\ vruns' = Append(vruns, [result |-> "NoRectanglesFound",
                                           centers |-> r.centers, text |-> vtext])
           ELSE /\ vpc' = "write"
                /\ UNCHANGED vruns
        /\ UNCHANGED <<pipelineVars, nArrived, standaloneVars, scene, image, thresh,
                       contours, vtext>>

\* with open(txt_filename, "w") as f: for center in rectangle_centers: ...
VWriteCoords ==
    LET text == WriteAll(OpenForWrite(vtext), rectangle_centers)
    IN  /\ vpc = "write"
        /\ vtext' = text
        /\ vpc' = "done"
        /\ vruns' = Append(vruns, [result |-> "Written", centers |-> rectangle_centers,
                                   text |-> text])
        /\ UNCHANGED <<pipelineVars, nArrived, standaloneVars, scene, image, thresh,
                       contours, rectangle_centers>>

\* process_image is called again on the same file, which nobody has changed;
\* thresh and contours are locals of the call
VCalledAgain ==
    /\ vpc = "done"
    /\ scene.kind # "none"
    /\ Len(vruns) < MaxRuns
    /\ thresh' = <<>>
    /\ contours' = <<>>
    /\ vpc' = "threshold"
    /\ UNCHANGED <<pipelineVars, nArrived, standaloneVars, scene, image,
                   rectangle_centers, vtext, vruns>>

----------------------------------------------------------------------------
\* The producers of files in the intake folder
Producer == \E n \in IncomingNames : Create(n)

\* start_webcam_capture: cv2.imwrite of a capture into test_images
Webcam == Create(NameCapture)

\* What other processes do to files that are not staged yet
Interference ==
    \/ \E n \in IncomingNames : Remove(n)
    \/ \E n \in IncomingNames : Lock(n)
    \/ \E n \in IncomingNames : Unlock(n)

\* The observer thread of a watcher of test_images
Stager ==
    \/ \E s \in Stagers : Dispatch(s)
    \/ \E s \in Stagers : WaitForFile(s)
    \/ \E s \in Stagers : Scan(s)
    \/ \E s \in Stagers : Retry(s)
    \/ \E s \in Stagers : Rename(s)
    \/ \E s \in Stagers : CopyStart(s)
    \/ \E s \in Stagers : CopyEnd(s)
    \/ \E s \in Stagers : Convert(s)
    \/ \E s \in Stagers : Save(s)

\* The observer thread of the watcher of copied_images
Extractor ==
    \/ XOnCreated
    \/ XProcessImage
    \/ XWriteCoords

\* The File Stager in its environment: one watcher on test_images, with
\* producers and interfering processes (copied_images is only written)
Next == Producer \/ Interference \/ Stager

Spec == Init /\ [][Next]_vars

\* The combined program: the webcam capture thread, the watcher on
\* test_images and the watcher on copied_images
NextPipeline == Webcam \/ Stager \/ Extractor

SpecPipeline == Init /\ [][NextPipeline]_vars

\* The two watchers of the combined program with files and directories of
\* any origin in their folders
Mkdirs == MkdirIntake \/ MkdirStaging

NextWatchers == Webcam \/ Mkdirs \/ Stager \/ Extractor

SpecWatchers == Init /\ [][NextWatchers]_vars

\* The owner of a capture withdraws it before it is staged
Withdrawal == Remove(NameCapture)

\* The combined program with captures that are withdrawn: its handlers
\* sleep in wait_for_file and in the retry loop
NextSerial == Webcam \/ Withdrawal \/ Stager \/ Extractor

SpecSerial == Init /\ [][NextSerial]_vars

\* A producer names its file with a digit that is no decimal digit
OddProducer == Create(NameSuper2)

\* The File Stager where the folders can fail and the names are of any kind
NextFaults == Webcam \/ OddProducer \/ Stager

SpecFaults == InitFaults /\ [][NextFaults]_vars

\* The user clears numbered files out of test_images
Cleanup == \E n \in intake : RemoveStaged(n)

\* The combined program with a user who clears test_images between captures
NextCleanup == Webcam \/ Cleanup \/ Stager \/ Extractor

SpecCleanup == Init /\ [][NextCleanup]_vars

\* The staging watcher alone ("code 2.py"), fed by other programs
StagedProducer == \E n \in StagedFileNames, c \in StagedContents : StagedPut(n, c)

StagedWithdrawal == \E n \in StagedFileNames : StagedRemove(n)

NextStaging == StagedProducer \/ StagedWithdrawal \/ Extractor

SpecStaging == Init /\ [][NextStaging]_vars

\* start_webcam_capture returns ('q' pressed, the camera cannot be opened,
\* a frame cannot be grabbed): webcam_thread.join() returns, main returns,
\* and the process ends with its two daemon threads, whatever they are doing
WebcamEnds ==
    /\ xpc # "killed"
    /\ pc' = [s \in Stagers |-> "killed"]
    /\ xpc' = "killed"
    /\ UNCHANGED <<envVars, visionVars, artifactVars, standaloneVars, intake, stagedNames, locked,
                   copied, queue, cur, stagerLocals, did, err, assigned, nArrived,
                   digitArrived, oneAtATime, xq, xcur, xread, xcenters, xresult,
                   xrouted>>

\* The webcam thread saves a capture while the program runs
WebcamRunning == xpc # "killed" /\ Webcam

\* The combined program from its start to its end
NextLifecycle == WebcamRunning \/ WebcamEnds \/ Stager \/ Extractor

SpecLifecycle == Init /\ [][NextLifecycle]_vars

\* The stand-alone processor and the programs that feed its folder
WatchedProducer == \E n \in WatchedNames : SaPut(n)

WatchedWithdrawal == \E n \in WatchedNames : SaRemove(n)

Standalone ==
    \/ SaOnCreated
    \/ SaRename
    \/ SaProcessImage
    \/ SaShowWindows
    \/ SaWriteCoords

NextStandalone == WatchedProducer \/ WatchedWithdrawal \/ Standalone

SpecStandalone == Init /\ [][NextStandalone]_vars

\* process_image on the image file of a picture, once and again
NextExtract ==
    \/ VThreshold
    \/ VSuppressBorder
    \/ VFindContours
    \/ VCollectCenters
    \/ VWriteCoords
    \/ VCalledAgain

SpecExtract == InitExtract /\ [][NextExtract]_vars

\* The loop of process_image on the contours it is given
NextLoop == VCollectCenters \/ VWriteCoords

SpecLoop == InitLoop /\ [][NextLoop]_vars

\* Two programs of the repository watching the same test_images folder
\* (the stand-alone renamer beside the combined program)
InitRace ==
    /\ platform \in {"windows", "posix"}
    /\ faulty = FALSE
    /\ running \in {{1}, {1, 2}}
    /\ Fresh

\* The producers and the stagers, undisturbed otherwise
NextRace == Producer \/ Stager

SpecRace == InitRace /\ [][NextRace]_vars

----------------------------------------------------------------------------
(* Properties *)

\* The IDs given so far are 1, 2, ... in the order of the renames, and the
\* renamed files are in the order of their arrival
IdsFollowArrivalOrder ==
    /\ \A i \in 1..Len(assigned) : assigned[i].id = i
    /\ \A i, j \in 1..Len(assigned) : i < j => assigned[i].arr < assigned[j].arr
    /\ Len(assigned) = nArrived => \A i \in 1..Len(assigned) : assigned[i].arr = i

\* C1 as stated: files created one at a time in an initially empty intake
\* folder get the IDs 1, 2, ..., N in arrival order, whatever their names.
C1_AnyNames == oneAtATime => IdsFollowArrivalOrder

\* C1, amended: files created one at a time in an initially empty intake
\* folder, none of which has an all-digit stem, get the IDs 1, 2, ... in
\* arrival order: the k-th file renamed gets ID k, and when all N files are
\* renamed the IDs are 1..N.
C1_NonDigitNames == (oneAtATime /\ ~digitArrived) => IdsFollowArrivalOrder

\* Two files have arrived one at a time and were renamed to 1 and 2
C1_Witness ==
    /\ oneAtATime
    /\ ~digitArrived
    /\ nArrived = 2
    /\ Len(assigned) = 2
    /\ assigned[2].id = 2

\* The numbers the scan of a folder listing finds, stated from the listing
NumericStems(listing) == {n \in 0..99 : \E f \in listing : IsDigit(Stem(f)) /\ ParseInt(Stem(f)) = n}

\* What C2 says of the scan of watcher s that moves from `before` to `after`
ScanGivesNextFreeNumber(s) ==
    LET nums == NumericStems(intake)
        id == next_number'[s]
        name == new_filename'[s]
    IN  /\ id >= 1
        /\ nums = {} => id = 1
        /\ nums # {} => (id - 1 \in nums /\ \A n \in nums : n < id)
        /\ IsDigit(Stem(name)) /\ ParseInt(Stem(name)) = id
        /\ Ext(name) = Ext(cur[s].src_path)
        /\ \A f \in intake : IsDigit(Stem(f)) => ParseInt(Stem(f)) # ParseInt(Stem(name))
        /\ name \notin intake

\* C2: every ID computed by rename_new_image is a strictly positive integer,
\* 1 when no entry of the folder has an all-digit stem and otherwise one more
\* than the largest all-digit stem present at scan time; the new name
\* <ID><ext> has the numeric stem of no file in the folder at scan time.
C2_NextFreeNumber ==
    [][\A s \in Stagers : (pc[s] = "scan" /\ pc'[s] = "retry") => ScanGivesNextFreeNumber(s)]_vars

\* A scan that found 10.png computed 11 for the capture
C2_Witness ==
    /\ pc[1] = "retry"
    /\ <<"1", "0", ".", "png">> \in intake
    /\ next_number[1] = 11
    /\ new_filename[1] = <<"1", "1", ".", "png">>

\* C3: a rename that fails with 'file in use' on its first attempts succeeds
\* on the next attempt once the lock is released, with no rename error
\* reported, and goes on to the copy; staging gives up on the rename only
\* when max_attempts retryable failures have been counted.
C3_RetryUntilBudget ==
    \A s \in Stagers :
        /\ "RenameExhausted" \in err[s] => attempt[s] = max_attempts
        /\ pc[s] = "rename" => attempt[s] < max_attempts
        /\ pc[s] = "copy" =>
              /\ "rename" \in did[s]
              /\ err[s] = {}
              /\ lastError[s] = "ok"
              /\ attempt[s] < max_attempts
              /\ calls[s] = nInUse[s] + 1
              /\ new_filename[s] \in intake

\* Three 'file in use' failures, then the fourth os.rename succeeded
C3_Witness ==
    /\ pc[1] = "copy"
    /\ nInUse[1] = 3
    /\ attempt[1] = 3
    /\ calls[1] = 4
    /\ err[1] = {}
    /\ locked = {}

\* Decreases with every step of the retry loop
LoopRank(a, p) == 2 * (max_attempts - a) + (IF p = "retry" THEN 1 ELSE 0)

\* The budget of the retry loop, and what a staging that spent it has done
C4_BudgetInv ==
    \A s \in Stagers :
        /\ attempt[s] \in 0..max_attempts
        /\ pc[s] \in {"retry", "rename", "copy"} \/ "RenameExhausted" \in err[s]
              => nInUse[s] + nMissing[s] = attempt[s]
        /\ calls[s] <= max_attempts
        /\ "RenameExhausted" \in err[s] =>
              /\ pc[s] = "idle"
              /\ did[s] = {"scan"}
              /\ err[s] = {"RenameExhausted"}
              /\ \A i \in 1..Len(assigned) :
                    ~(assigned[i].by = s /\ assigned[i].arr = cur[s].arr)

\* Every step of the retry loop leaves it or lowers LoopRank
C4_LoopStep ==
    \A s \in Stagers :
        (pc[s] \in {"retry", "rename"} /\ <<pc[s], attempt[s]>> # <<pc'[s], attempt'[s]>>)
            => \/ pc'[s] \in {"idle", "copy"}
               \/ /\ pc'[s] \in {"retry", "rename"}
                  /\ LoopRank(attempt'[s], pc'[s]) < LoopRank(attempt[s], pc[s])
                  /\ LoopRank(attempt'[s], pc'[s]) >= 0

\* C4: the retry loop terminates: 'file in use' failures and 'source
\* missing' observations are counted in one budget of max_attempts, os.rename
\* is called at most max_attempts times per staging, every step of the loop
\* uses up budget or leaves the loop, and once the budget is spent the
\* staging returns having renamed nothing, created no folder and copied
\* nothing.
C4_RetryLoopTerminates == [](C4_BudgetInv) /\ [][C4_LoopStep]_vars

\* The budget was spent on failures of both kinds
C4_Witness ==
    /\ "RenameExhausted" \in err[1]
    /\ nInUse[1] > 0
    /\ nMissing[1] > 0
    /\ calls[1] = nInUse[1]

\* C5: a failure of os.rename that is not the 'file in use' error (also any
\* OSError on a platform without winerror) is fatal: it is not retried, the
\* staging returns at once, and nothing is copied or converted.
C5_OtherErrorsFatal ==
    \A s \in Stagers :
        /\ (lastError[s] \notin {"none", "ok"} /\ Winerror(lastError[s]) # {32}) =>
              /\ pc[s] = "idle"
              /\ err[s] = {"RenameFatal"}
              /\ did[s] = {"scan"}
        /\ "RenameFatal" \in err[s] => lastError[s] \notin {"none", "ok", "ERROR_SHARING_VIOLATION"}

\* os.rename failed on a platform without winerror and the staging returned
C5_Witness ==
    /\ platform = "posix"
    /\ lastError[1] = "ENOENT"
    /\ pc[1] = "idle"
    /\ err[1] = {"RenameFatal"}

\* C6: when the path of a creation event does not exist within the
\* stability timeout, wait_for_file fails after a bounded number of polls
\* and on_created does no scan, no rename and no copy for that event.
C6_NeverAppeared ==
    \A s \in Stagers :
        /\ elapsed[s] \in 0..TimeoutTicks
        /\ "FileNeverAppeared" \in err[s] =>
              /\ pc[s] = "idle"
              /\ did[s] = {}
              /\ err[s] = {"FileNeverAppeared"}
              /\ calls[s] = 0
              /\ \A i \in 1..Len(assigned) :
                    ~(assigned[i].by = s /\ assigned[i].arr = cur[s].arr)

\* wait_for_file ran to the last poll before it gave up on an absent file
C6_Witness ==
    /\ "FileNeverAppeared" \in err[1]
    /\ cur[1].src_path \notin intake
    /\ pc[1] = "idle"

\* The names C7 and C8 give to the files of the staging of watcher s
StagedName(s) == FormatInt(next_number[s]) \o Ext(cur[s].src_path)
GrayscaleName(s) ==
    FormatInt(next_number[s]) \o <<"_", "grayscale">> \o Ext(cur[s].src_path)
ArtifactName(s) == FormatInt(next_number[s]) \o <<"_", "coords", ".", "txt">>

C7_PartialProgressKept ==
    \A s \in Stagers :
        /\ "rename" \in did[s] => StagedName(s) \in intake
        /\ "copy" \in did[s] => GrayscaleName(s) \in DOMAIN copied
        /\ "GrayscaleConversionFailed" \in err[s] =>
              /\ pc[s] = "idle"
              /\ {"rename", "copy"} \subseteq did[s]
              /\ "convert" \notin did[s]
              /\ copied[GrayscaleName(s)] \in {"raw", "saving"}
        /\ "CopyFailed" \in err[s] =>
              /\ pc[s] = "idle"
              /\ "rename" \in did[s]
              /\ did[s] \cap {"copy", "convert"} = {}
              /\ GrayscaleName(s) \in DOMAIN copied => copied[GrayscaleName(s)] = "copying"

C7_NothingUndone ==
    \A s \in Stagers :
        (pc[s] # "idle" /\ pc'[s] # "wait_for_file") =>
            /\ did[s] \subseteq did'[s]
            /\ "rename" \in did[s] => StagedName(s) \in intake'
            /\ GrayscaleName(s) \in DOMAIN copied => GrayscaleName(s) \in DOMAIN copied'

RenameSucceeds(s) == pc[s] = "rename" /\ pc'[s] = "copy"

\* The staging of watcher s ends without an error in this step
StagingSucceeds(s) == pc[s] = "save" /\ pc'[s] = "idle" /\ err'[s] = {}

\* Distinct IDs give distinct staged copies and distinct artifacts
DistinctIdsDistinctFiles(seq) ==
    \A i, j \in 1..Len(seq) :
        seq[i].id # seq[j].id =>
            /\ CopyFilename(seq[i].dst) # CopyFilename(seq[j].dst)
            /\ CoordsFilename(CopyFilename(seq[i].dst)) # CoordsFilename(CopyFilename(seq[j].dst))

\* What C8 says of the files of a staging, but for the original name
StagedFilesNamed(s) ==
    /\ RenameSucceeds(s) => StagedName(s) \in intake'
    /\ StagingSucceeds(s) =>
          /\ StagedName(s) \in intake'
          /\ GrayscaleName(s) \in DOMAIN copied'
          /\ copied'[GrayscaleName(s)] = "gray"
          /\ CoordsFilename(GrayscaleName(s)) = ArtifactName(s)
          /\ HasGrayscaleMarker(GrayscaleName(s))
    /\ DistinctIdsDistinctFiles(assigned')

\* C8 as stated: after a successful staging with ID n the intake folder no
\* longer contains the original name and contains n<ext>, copied_images
\* contains n_grayscale<ext>, the artifact written for it is n_coords.txt,
\* and distinct IDs give distinct copies and artifacts.
C8_OriginalNameGone ==
    [][\A s \in Stagers :
          /\ StagedFilesNamed(s)
          /\ RenameSucceeds(s) => cur[s].src_path \notin intake']_vars

\* C8, amended: as stated, except that the original name is gone from the
\* intake folder only when it differs from n<ext>; a file that vanished
\* before the scan and reappeared under the very name n<ext> is renamed onto
\* itself and stays.
C8_StagedNames ==
    [][\A s \in Stagers :
          /\ StagedFilesNamed(s)
          /\ (RenameSucceeds(s) /\ cur[s].src_path # StagedName(s))
                => cur[s].src_path \notin intake']_vars

\* Two stagings succeeded: 1.png and 2.png in the intake folder, their
\* converted copies in copied_images
C8_Witness ==
    /\ pc[1] = "idle"
    /\ err[1] = {}
    /\ "convert" \in did[1]
    /\ next_number[1] = 2
    /\ cur[1].src_path \notin intake
    /\ {<<"1", ".", "png">>, <<"2", ".", "png">>} \subseteq intake
    /\ copied[<<"2", "_", "grayscale", ".", "png">>] = "gray"
    /\ <<"1", "_", "grayscale", ".", "png">> \in DOMAIN copied

\* C9: in the combined pipeline process_image decodes a staged file
\* <ID>_grayscale<ext> only after the stager has converted it: never while
\* it is being copied, still unconverted, or being overwritten.
C9_ReadsConvertedCopy == xread \in {"none", "gray"}

\* No two renames were given the same ID
UniqueIds == \A i, j \in 1..Len(assigned) : i # j => assigned[i].id # assigned[j].id

HandledOneAtATime ==
    /\ \A s \in Stagers :
          /\ cur'[s] # cur[s] => (pc[s] = "idle" /\ cur'[s].arr = cur[s].arr + 1
                                   /\ cur'[s] = queue[s][1] /\ queue'[s] = Tail(queue[s]))
          /\ pc[s] \notin {"idle", "crashed"} => cur'[s] = cur[s]
    /\ Len(xq') < Len(xq) =>
          /\ xpc = "idle"
          /\ xq' = Tail(xq)
          /\ xpc' = "process_image" => xcur' = xq[1].src_path
    /\ xpc # "idle" => xcur' = xcur

\* C11: within one watched folder the creation events are handled strictly
\* one at a time and in arrival order: the handling of event k+1 (wait,
\* rename, copy, conversion or extraction) never starts before the handling
\* of event k has returned, also while event k sleeps in a poll or in a
\* retry backoff.
C11_OneAtATime == [][HandledOneAtATime]_vars

\* The first event sleeps in the retry backoff, having slept in
\* wait_for_file, while the second event waits in the queue
C11_Witness ==
    /\ pc[1] = "retry"
    /\ nMissing[1] > 0
    /\ cur[1].arr = 1
    /\ Len(queue[1]) = 1
    /\ queue[1][1].arr = 2

\* The base name holds the grayscale marker
NameHasMarker(name) == \E i \in 1..Len(name) : name[i] = "grayscale"

\* What C12 says of one step of the two subscriptions
RoutedOrDropped ==
    /\ Len(xq') < Len(xq) =>
          /\ xpc' = "process_image" <=>
                (~xq[1].is_directory /\ NameHasMarker(xq[1].src_path))
          /\ xpc' = "process_image" => xcur' = xq[1].src_path
          /\ xpc' # "process_image" =>
                /\ xpc' = "idle"
                /\ <<copied, artifacts, intake, xread, xresult>>
                      = <<copied', artifacts', intake', xread', xresult'>>
    /\ (xpc # "process_image" /\ xpc' = "process_image") => Len(xq') < Len(xq)
    /\ \A s \in Stagers :
          /\ (cur'[s] # cur[s] /\ cur'[s].is_directory) =>
                /\ pc'[s] = "idle"
                /\ did'[s] = {}
                /\ <<copied, artifacts, intake, assigned>>
                      = <<copied', artifacts', intake', assigned'>>
          /\ pc'[s] # "idle" => ~cur'[s].is_directory

\* C12: the staging subscription routes a creation event to process_image
\* only if it is for a file, not a directory, whose base name contains the
\* grayscale marker; every other event is dropped with no read or write of
\* any file; the intake subscription does nothing for the creation event of
\* a directory.
C12_Routing == [][RoutedOrDropped]_vars

\* The creation events of the artifact 1_coords.txt and of a directory
\* named with the marker have both been dropped
C12_Witness ==
    /\ xresult = "Written"
    /\ <<"1", "_", "coords", ".", "txt">> \in DOMAIN artifacts
    /\ NameGrayDir \in DOMAIN copied
    /\ xq = <<>>
    /\ xpc = "idle"

\* C13: for the intake subscription no numbering scan or rename for an
\* event happens before a delay step for that event: wait_for_file has slept
\* at least once when rename_new_image is entered, even when the file
\* already exists when the event is received.
C13_DelayBeforeScan ==
    [][\A s \in Stagers : (pc[s] = "wait_for_file" /\ pc'[s] = "scan") => elapsed[s] > 0]_vars

\* C14: no per-file failure terminates a watch loop: whatever goes wrong
\* while one creation event is handled, the handler returns and the observer
\* thread of the watcher lives on to handle the later events.
C14_WatchersSurvive == \A s \in Stagers : pc[s] # "crashed"

\* The renames of images among the first i renames of the stand-alone
\* processor
ImageRenames(i) == {j \in 1..i : Lower(Ext(wnamed[j].dst)) \in IMAGE_EXTENSIONS}

\* C15: a failure while handling one file does not change how a later file
\* is processed: the name given to a later file is the one it would have
\* if the failed file had never arrived.  For the counter-based naming of
\* get_new_filename: the images renamed get image_1, image_2, ... whatever
\* renames failed in between.
C15_LaterNamesUnaffected ==
    \A i \in 1..Len(wnamed) :
        i \in ImageRenames(i) =>
            wnamed[i].dst = <<"image", "_">> \o FormatInt(Cardinality(ImageRenames(i)))
                               \o Lower(Ext(wnamed[i].src))

\* C16: a watch loop ends for no other reason than an external interrupt,
\* and the process does not return while a dispatch (staging or extraction)
\* is still in flight: when the combined program ends, its watchers are
\* between two events.
C16_ExitWaitsForDispatch ==
    [][(xpc' = "killed" /\ xpc # "killed") =>
          (xpc = "idle" /\ \A s \in running : pc[s] = "idle")]_vars


\* A step of process_image that leaves it
ProcessImageReturns == xpc = "process_image" /\ xpc' # xpc

\* The file process_image is given cannot be used: it is gone, may not be
\* read, or is corrupt
CannotBeRead ==
    \/ xcur \notin DOMAIN copied
    \/ copied[xcur] \in {"noaccess", "corrupt"}

\* What process_image reports for such a file
ReportFor(folder, name) ==
    IF name \notin DOMAIN folder THEN "FileNotFound"
    ELSE IF folder[name] = "noaccess" THEN "FileUnreadable"
    ELSE "DecodeFailed"

\* process_image has returned to the watcher and has left every file, every
\* coordinate artifact and every pending event as it was
ReturnsWithoutEffect ==
    /\ xpc' = "idle"
    /\ copied' = copied
    /\ artifacts' = artifacts
    /\ lastCenters' = lastCenters
    /\ xq' = xq

\* C17: process_image on a path that does not exist, is not readable or
\* cannot be decoded returns without raising (FileNotFound, FileUnreadable,
\* DecodeFailed), creates and modifies no coordinate artifact, and leaves the
\* staging watcher idle with its pending events, ready for the next one.
C17_FailedReadIsHarmless ==
    [][(ProcessImageReturns /\ (CannotBeRead \/ xresult' = "DecodeFailed"))
         => /\ ReturnsWithoutEffect
            /\ CannotBeRead => xresult' = ReportFor(copied, xcur)]_vars

\* A corrupt 1_grayscale.png was routed first, and the watcher went on to
\* 1_grayscale.jpg and wrote its coordinates
C17_Witness ==
    /\ xpc = "idle"
    /\ xq = <<>>
    /\ xcur = NameGray1Jpg
    /\ xresult = "Written"
    /\ NameGray1Png \in DOMAIN copied
    /\ copied[NameGray1Png] = "corrupt"
    /\ CoordsFilename(NameGray1Jpg) \in DOMAIN artifacts

\* C18: when extraction finds no qualifying rectangle the coordinate writer
\* is not invoked: process_image returns, no artifact is created, and the
\* artifact an earlier processing of the same stem left is unchanged.
C18_NoRectanglesNoWrite ==
    [][/\ (ProcessImageReturns /\ xresult' = "NoRectanglesFound") => ReturnsWithoutEffect
       /\ (ProcessImageReturns /\ xpc' = "write_coords") => xcenters' # <<>>
       /\ (xpc = "write_coords" /\ xpc' # xpc) => xcenters # <<>>]_vars

\* No rectangle was found in an image whose stem already has an artifact
C18_Witness ==
    /\ xpc = "idle"
    /\ xresult = "NoRectanglesFound"
    /\ CoordsFilename(xcur) \in DOMAIN lastCenters
    /\ CoordsFilename(xcur) \in DOMAIN artifacts
    /\ artifacts[CoordsFilename(xcur)] # <<>>

\* The text "<cX>, <cY>" followed by a line end, for each center in turn
RECURSIVE ExpectedText(_)
ExpectedText(centers) ==
    IF centers = <<>> THEN <<>>
    ELSE LET n == Len(centers)
             c == centers[n]
         IN  ExpectedText(SubSeq(centers, 1, n - 1))
               \o FormatInt(c[1]) \o <<",", " ">> \o FormatInt(c[2]) \o <<"\n">>

\* C19: the artifact <stem>_coords.txt holds exactly the centers of the most
\* recent extraction of that stem that found a rectangle and wrote them, one
\* line "<cX>, <cY>" per center in the order found, and nothing of earlier
\* runs: it is overwritten, never appended to.
C19_ArtifactIsLatestCenters ==
    \A txt \in DOMAIN lastCenters :
        /\ txt \in DOMAIN artifacts
        /\ artifacts[txt] = ExpectedText(lastCenters[txt].centers)

\* An artifact has been written twice, the second time with a single center
C19_Witness ==
    \E txt \in DOMAIN lastCenters :
        /\ lastCenters[txt].writes >= 2
        /\ lastCenters[txt].centers = <<CenterA>>
        /\ txt \in DOMAIN artifacts

\* The lines of a text as a reader iterating over the file gets them,
\* without their line ends; a last line needs no line end
RECURSIVE SplitLines(_, _)
SplitLines(text, line) ==
    IF text = <<>> THEN (IF line = <<>> THEN <<>> ELSE <<line>>)
    ELSE IF Head(text) = "\n" THEN <<line>> \o SplitLines(Tail(text), <<>>)
    ELSE SplitLines(Tail(text), Append(line, Head(text)))

\* line.split(", ")
RECURSIVE SplitCommaSpace(_, _)
SplitCommaSpace(line, part) ==
    IF line = <<>> THEN <<part>>
    ELSE IF Len(line) >= 2 /\ line[1] = "," /\ line[2] = " "
    THEN <<part>> \o SplitCommaSpace(SubSeq(line, 3, Len(line)), <<>>)
    ELSE SplitCommaSpace(Tail(line), Append(part, Head(line)))

\* The integers of one line; -1 stands for a part that is no integer
ParseLine(line) ==
    LET parts == SplitCommaSpace(line, <<>>)
    IN  [i \in 1..Len(parts) |-> IF IsDecimal(parts[i]) THEN ParseInt(parts[i]) ELSE -1]

\* The naive parser: every line split on ", "
ParseCoords(text) ==
    LET lines == SplitLines(text, <<>>)
    IN  [i \in 1..Len(lines) |-> ParseLine(lines[i])]

\* C20: round trip: for a non-empty sequence of integer centers, the file
\* the coordinate writer writes, parsed line by line with each line split on
\* ", ", gives the same sequence, in the same order and of the same length.
C20_RoundTrip ==
    \A txt \in DOMAIN lastCenters :
        LET parsed == ParseCoords(TextOf(artifacts, txt))
        IN  /\ Len(parsed) = Len(lastCenters[txt].centers)
            /\ parsed = lastCenters[txt].centers

\* A file of two centers with one-digit and two-digit coordinates has been
\* written and parses to two lines
C20_Witness ==
    \E txt \in DOMAIN lastCenters :
        /\ lastCenters[txt].centers = <<CenterB, CenterA>>
        /\ Len(ParseCoords(TextOf(artifacts, txt))) = 2


\* C25: over the process lifetime the IDs rename_new_image assigns are
\* strictly increasing, so a later staging never reuses an earlier ID nor
\* the names <ID>_grayscale<ext> and <ID>_coords.txt that go with it, also
\* when numbered files are removed from test_images between stagings.
C25_IdsStrictlyIncrease ==
    \A i, j \in 1..Len(assigned) : i < j => assigned[i].id < assigned[j].id


\* The names of the coordinate artifacts the Extractor has written
CoordsArtifacts == DOMAIN artifacts

\* Every watcher is idle and has no pending event
SystemIdle ==
    /\ xpc = "idle" /\ xq = <<>>
    /\ \A s \in running : pc[s] = "idle" /\ queue[s] = <<>>

\* C26: in the combined pipeline the coordinate artifact the Extractor
\* writes into copied_images is never routed back to it: every path given to
\* process_image is a staged copy, given once, so that a file arriving in
\* test_images causes at most one staging and at most one extraction.
C26_NoFeedback ==
    /\ \A i \in 1..Len(xrouted) :
         /\ xrouted[i] \notin CoordsArtifacts
         /\ \E k \in 1..Len(assigned) : xrouted[i] = CopyFilename(assigned[k].dst)
    /\ \A i, j \in 1..Len(xrouted) : xrouted[i] = xrouted[j] => i = j
    /\ Len(assigned) <= nArrived
    /\ Len(xrouted) <= Len(assigned)

\* One capture has been staged and extracted, its artifact is written, and
\* the system is idle again after a single extraction
C26_Witness ==
    /\ SystemIdle
    /\ nArrived = 1
    /\ Len(assigned) = 1
    /\ xrouted = <<CopyFilename(assigned[1].dst)>>
    /\ CoordsFilename(xrouted[1]) \in CoordsArtifacts


\* C27: in the stand-alone processor one image arriving in the watched
\* folder leads to a finite number of handled events: the files process_image
\* writes into the folder (<name>_bw<ext>, <name>_coords.txt) start no chain
\* of further renames and extractions, so no more images are numbered than
\* files have arrived.
C27_NoChainOfOwnOutputs == image_counter <= nArrived

\* C28: get_new_filename never gives the same target to two arrivals:
\* images get image_1, image_2, ... and text files pairwise distinct
\* coords_<number>.txt names, so no rename targets a name already given to an
\* earlier file.
C28_TargetsDistinct ==
    \A i, j \in 1..Len(wnamed) : i < j => wnamed[i].dst # wnamed[j].dst


\* C21: determinism: running process_image twice on the same unmodified
\* image gives the identical sequence of centers, and the coordinate file
\* after the second run is identical to the file after the first.
C21_Determinism ==
    \A i, j \in 1..Len(vruns) :
        /\ vruns[i].centers = vruns[j].centers
        /\ vruns[i].text = vruns[j].text
        /\ vruns[i].result = vruns[j].result

\* process_image has run twice on a picture in which it finds a rectangle,
\* and has written the coordinate file both times
C21_Witness ==
    /\ Len(vruns) = 2
    /\ vruns[1].result = "Written"
    /\ vruns[2].result = "Written"
    /\ vruns[2].centers # <<>>
    /\ vtext = vruns[1].text


\* A center lies within one pixel, in each coordinate, of the centroid of
\* the rectangle of the picture (the comparison is of the doubled values)
NearCentroid(center, sc) ==
    /\ Abs(2 * center[1] - (sc.xs[1] + sc.xs[2])) <= 2
    /\ Abs(2 * center[2] - (sc.ys[1] + sc.ys[2])) <= 2

\* C22: for every image of exactly one axis-parallel rectangle, light on
\* dark or dark on light, anywhere in the canvas, the extraction returns
\* exactly one center, and that center is within one pixel of the centroid
\* of the rectangle in each coordinate.
C22_OneCenterAtCentroid ==
    \A i \in 1..Len(vruns) :
        scene.kind # "none" =>
            /\ Len(vruns[i].centers) = 1
            /\ NearCentroid(vruns[i].centers[1], scene)


\* The positions of the contours that have a 4-vertex approximation and a
\* zeroth moment that is not zero
Qualifying(cnts) ==
    {i \in 1..Len(cnts) : Len(ApproxPolyDP(cnts[i])) = 4 /\ Moments(cnts[i]).m00x2 # 0}

\* The k-th of these positions
KthQualifying(cnts, k) ==
    CHOOSE i \in Qualifying(cnts) : Cardinality({j \in Qualifying(cnts) : j < i}) = k - 1

\* One center for each qualifying contour, in the order of the contours
ExpectedCenters(cnts) ==
    [k \in 1..Cardinality(Qualifying(cnts)) |->
        Centroid(Moments(cnts[KthQualifying(cnts, k)]))]

\* The loop over the contours is left
LoopReturns == vpc = "centers" /\ vpc' # vpc

\* C23: a contour contributes a center iff its polygon approximation has
\* exactly 4 vertices and its zeroth moment is not zero; a 4-vertex contour
\* of zero area is skipped without an exception; the centers are in the
\* order of the contours and are never more than the contours.
C23_CentersOfQualifyingContours ==
    [][LoopReturns =>
         /\ rectangle_centers' = ExpectedCenters(contours)
         /\ Len(rectangle_centers') <= Len(contours)
         /\ vpc' = "done" => /\ rectangle_centers' = <<>>
                             /\ vruns'[Len(vruns')].result = "NoRectanglesFound"]_vars

\* The loop has skipped a 4-vertex contour of zero area and has then found
\* the center of a square and of a rectangle, in this order
C23_Witness ==
    /\ vpc = "write"
    /\ contours = <<ContourThinL, ContourSquare, ContourRectangle>>
    /\ rectangle_centers = <<<<2, 2>>, <<5, 1>>>>


\* The binary mask has been thresholded and its border suppressed
MaskReady == vpc \in {"find_contours", "centers", "write", "done"} /\ thresh # <<>>

\* Every pixel of the mask is 0 or 255, the first and last row and column
\* are 0, and no contour has a point on them
MaskIsBinaryWithClearBorder ==
    /\ \A p \in Pixels : thresh[p] \in {0, MAXVAL}
    /\ \A p \in Pixels : OnBorder(p) => thresh[p] = 0
    /\ \A i \in 1..Len(contours) : \A k \in 1..Len(contours[i]) : ~OnBorder(contours[i][k])

\* C24: after segmentation and border suppression every pixel of the mask
\* is 0 or 255, the first and last row and column are 0 so that no contour
\* touches the image boundary, and a pixel inside the border is foreground
\* (255) exactly when its gray value is not above the threshold 50: a pixel
\* of gray value 50 is foreground.
C24_MaskOfThresholdAtMost50 ==
    MaskReady =>
        /\ MaskIsBinaryWithClearBorder
        /\ \A p \in Pixels : ~OnBorder(p) => (thresh[p] = MAXVAL <=> image[p] <= THRESH)

\* C24 as stated: a pixel is foreground exactly when its gray value is
\* darker than the threshold 50
C24_MaskOfDarkerThan50 ==
    MaskReady =>
        /\ MaskIsBinaryWithClearBorder
        /\ \A p \in Pixels : ~OnBorder(p) => (thresh[p] = MAXVAL <=> image[p] < THRESH)

\* The mask of a picture whose rectangle has the gray value 50 and reaches
\* the border: inside it is foreground, on the border it is cleared, and its
\* contour has been found
C24_Witness ==
    /\ vpc = "centers"
    /\ contours # <<>>
    /\ \E p \in Pixels : ~OnBorder(p) /\ image[p] = THRESH /\ thresh[p] = MAXVAL
    /\ \E p \in Pixels : OnBorder(p) /\ image[p] = THRESH /\ thresh[p] = 0
    /\ \E p \in Pixels : ~OnBorder(p) /\ image[p] > THRESH /\ thresh[p] = 0

====
